---- MODULE Spec2Model ----
(***************************************************************************)
(* A model of lfsr.c: a 16-bit accumulator machine whose program counter   *)
(* is advanced by an 8-bit Galois LFSR.  The state is the vm_t structure,  *)
(* the locals of run(), the devices' observable history and the position   *)
(* of the process (reset, running, halted, faulted).                       *)
(***************************************************************************)
EXTENDS Integers, Sequences, FiniteSets, TLC

\* ------------------------------------------------------------------ constants
SZ == 4096
POLYNOMIAL == 184
PCMSK == 255
OLFSR == 1
OADD == 2
OFIRST == 4
EOF == -1
\* a token fscanf("%lx,") cannot convert
BAD == -2

\* ------------------------------------------------------------------ bounds
\* iterations of run()'s loop explored
MaxCycles == 20
\* applications of the sequencer explored from one seed
MaxWalk == 255

\* ------------------------------------------------------------------ bit operations on words
RECURSIVE XorN(_, _, _)
XorN(x, y, n) ==
    IF n = 0 THEN 0
    ELSE (((x % 2) + (y % 2)) % 2) + 2 * XorN(x \div 2, y \div 2, n - 1)

RECURSIVE AndN(_, _, _)
AndN(x, y, n) ==
    IF n = 0 THEN 0
    ELSE ((x % 2) * (y % 2)) + 2 * AndN(x \div 2, y \div 2, n - 1)

\* C's ^ and & on uint16_t operands
BitXor(x, y) == XorN(x, y, 16)
BitAnd(x, y) == AndN(x, y, 16)

\* conversion of an int or unsigned long to uint16_t
ToWord(x) == x % 65536

\* opts & F, for a one-bit flag F
HasFlag(o, F) == (o \div F) % 2 = 1

\* ------------------------------------------------------------------ the sequencer
\* the same register with the two-tap polynomial 0x84
lfsr_poly84(n, polynomial_mask, add) ==
    IF add THEN BitAnd(n + 1, PCMSK)
    ELSE LET feedback == n % 2
             sh == n \div 2
         IN BitAnd(IF feedback = 1 THEN BitXor(sh, 132) ELSE sh, PCMSK)

\* the register with the feedback applied on a clear low bit
lfsr_xnor(n, polynomial_mask, add) ==
    IF add THEN BitAnd(n + 1, PCMSK)
    ELSE LET feedback == n % 2
             sh == n \div 2
         IN BitAnd(IF feedback = 0 THEN BitXor(sh, polynomial_mask) ELSE sh, PCMSK)

\* the sequencer always counting up
lfsr_count(n, polynomial_mask, add) == BitAnd(n + 1, PCMSK)

lfsr(n, polynomial_mask, add) ==
    IF add THEN BitAnd(n + 1, PCMSK)
    ELSE LET feedback == n % 2
             sh == n \div 2
         IN BitAnd(IF feedback = 1 THEN BitXor(sh, polynomial_mask) ELSE sh, PCMSK)

\* ------------------------------------------------------------------ program images
\* a program file: the cells given, zero elsewhere, up to the highest cell
Image(cells) ==
    LET top == CHOOSE i \in DOMAIN cells : \A j \in DOMAIN cells : j <= i
    IN [i \in 1..(top + 1) |-> IF (i - 1) \in DOMAIN cells THEN cells[i - 1] ELSE 0]

\* 0x1005, 0x9000, 0x1000
ProgScenario == <<4101, 36864, 4096>>
\* jmp 0x100
ProgFarJump == <<24832>>
\* jmp 0 at address 0
ProgHalt == <<24576>>
\* 0: jmp [1]; 1: 0x1005; 5: jmp 5
ProgWideJump == Image((0 :> 57345) @@ (1 :> 4101) @@ (5 :> 24581))
\* "12,ZZ,34"
ProgMalformed == <<18, BAD, 52>>
\* a walk along the LFSR sequence from 1 (1, 0xB8, 0x5C, 0x2E, 0x17, 0xB3, ...)
\* that writes the device twice, reads it, stores and reloads a cell, and halts
ProgIO ==
    Image((0 :> 24577)      \* jmp 1
       @@ (1 :> 65)         \* xor 0x41
       @@ (184 :> 53760)    \* store [0x200]  (device)
       @@ (92 :> 53760)     \* store [0x200]  (device)
       @@ (46 :> 49664)     \* load [0x200]   (device)
       @@ (23 :> 21248)     \* store 0x300
       @@ (179 :> 255)      \* xor 0xFF
       @@ (225 :> 17152)    \* load 0x300
       @@ (200 :> 255)      \* xor 0xFF
       @@ (100 :> 49665)    \* load [0x201]   (0x1300, the same cell as 0x300)
       @@ (50 :> 8195)      \* lsl1 3
       @@ (25 :> 12297)     \* lsr1 9
       @@ (180 :> 4108)     \* and 0xC
       @@ (90 :> 28672)     \* jmpz 0
       @@ (45 :> 4096)      \* and 0
       @@ (174 :> 28679)    \* jmpz 7
       @@ (7 :> 24583)      \* jmp 7
       @@ (512 :> 32768)    \* 0x200: 0x8000
       @@ (513 :> 4864))    \* 0x201: 0x1300

\* 4100 tokens: jmp 0, zeros, and a 0x41 past the end of memory
ProgLong == Image((0 :> 24576) @@ (4099 :> 65))
\* jmpz 0 at address 0
ProgJmpzSelf == <<28672>>
\* the four ALU opcodes on a device character and on full-width operands,
\* along the LFSR sequence from 1
ProgAlu ==
    Image((0 :> 24577)      \* jmp 1
       @@ (1 :> 49664)      \* load [0x200]   (device)
       @@ (184 :> 8195)     \* lsl1 3
       @@ (92 :> 33281)     \* xor [0x201]
       @@ (46 :> 37378)     \* and [0x202]
       @@ (23 :> 41473)     \* lsl1 [0x201]
       @@ (179 :> 45569)    \* lsr1 [0x201]
       @@ (225 :> 24801)    \* jmp 0xE1: halt
       @@ (512 :> 32768)    \* 0x8000
       @@ (513 :> 65535)    \* 0xFFFF
       @@ (514 :> 61680))   \* 0xF0F0

\* a character that is no hex digit; hex digits are the characters 0..15
NONHEX == 16

\* the digits fprintf("%lx") would write for n
RECURSIVE HexDigits(_)
HexDigits(n) == IF n < 16 THEN <<n>> ELSE Append(HexDigits(n \div 16), n % 16)

\* the text of a program file, token by token (tokens are separated by a comma
\* or white space)
Text(p) == [i \in DOMAIN p |-> IF p[i] = BAD THEN <<NONHEX, NONHEX>> ELSE HexDigits(p[i])]

\* "12,3G,34"
TextDirty == <<<<1, 2>>, <<3, NONHEX>>, <<3, 4>>>>

Programs ==
    <<Text(ProgScenario), Text(ProgFarJump), Text(ProgHalt), Text(ProgWideJump),
      Text(ProgMalformed), Text(ProgIO), Text(ProgLong), Text(ProgJmpzSelf), TextDirty,
      Text(ProgAlu)>>

\* the number of leading hex digits of a token: what %lx consumes of it
PrefixLen(tok) ==
    LET bad == {k \in 1..Len(tok) : tok[k] >= NONHEX}
    IN IF bad = {} THEN Len(tok)
       ELSE (CHOOSE k \in bad : \A j \in bad : k <= j) - 1

\* the unsigned long %lx converts the first k digits of a token to
RECURSIVE HexValue(_, _)
HexValue(tok, k) == IF k = 0 THEN 0 ELSE 16 * HexValue(tok, k - 1) + tok[k]

\* main's loop running over every token, malformed or not
Converted_all(tokens) == IF Len(tokens) < SZ THEN Len(tokens) ELSE SZ

\* the number of cells main's loop assigns before it breaks: fscanf("%lx,")
\* converts the leading hex digits of a token; it returns 0 at a token without
\* one, and after a token with other characters behind its digits the next
\* call stops at those characters; the loop ends at the end of the file or
\* after SZ cells
Converted(tokens) ==
    LET lim == IF Len(tokens) < SZ THEN Len(tokens) ELSE SZ
        bad == {i \in 1..lim : PrefixLen(tokens[i]) < Len(tokens[i])}
        first == CHOOSE i \in bad : \A j \in bad : i <= j
    IN IF bad = {} THEN lim
       ELSE IF PrefixLen(tokens[first]) = 0 THEN first - 1 ELSE first

\* vm.m after main's loading loop, from the zeroed structure
LoadImage(tokens) ==
    LET n == Converted(tokens)
    IN [i \in 0..(SZ - 1) |->
           IF i < n THEN ToWord(HexValue(tokens[i + 1], PrefixLen(tokens[i + 1]))) ELSE 0]

\* what the input device can return, and the outcomes of the two writes; an
\* iteration draws a result only for the calls it makes
GetResults == {EOF, 0, 65, 255}
PutResults == BOOLEAN
FprintfResults == {-1, 1}

VARIABLES
    m,        \* v->m
    vpc,      \* v->pc
    va,       \* v->a
    vopts,    \* v->opts
    debug,    \* v->debug is not NULL
    pc,       \* run's local pc
    a,        \* run's local a
    opts,     \* run's local opts
    cycles,   \* run's loop counter
    status,   \* "reset", "running", "halted", "faulted"
    ret,      \* what run returned
    out,      \* the calls of v->put, in order: <<value, cycle>>
    putErr,   \* some v->put returned a negative value
    gets,     \* the number of calls of v->get
    trace,    \* the number of trace lines written to v->debug
    traceErr, \* the fprintf of a trace line returned a negative value
    diag,     \* the cycle counts of the "Cycles until first output" lines written
    ev,       \* the last iteration of the loop: what it fetched and from which registers
    lastStore,\* the last store to a memory cell: <<addr, val>>, or <<>>
    prog,     \* the index of the program file given to main
    line,     \* the last trace line written: <<pc, indirect, alu, a>>, or <<>>
    got,      \* what the last call of v->get returned: <<ch>>, or <<>>
    argc,     \* main's argc
    fopenOK,  \* fopen(argv[1]) returns a file
    fcloseOK, \* fclose(prog) returns 0
    exit,     \* main's return value: <<code>>, or <<>> while it has not returned
    outcome,  \* why main returned: "usage", "open", "close", "fault", "halt"
    seed,     \* sequencer walk: the value the walk started from
    cur,      \* sequencer walk: the current value
    steps,    \* sequencer walk: applications so far
    seen      \* sequencer walk: the values produced so far

vars == <<m, vpc, va, vopts, debug, pc, a, opts, cycles, status, ret, out, putErr,
          gets, trace, traceErr, diag, ev, lastStore, prog, line, got,
          argc, fopenOK, fcloseOK, exit, outcome, seed, cur, steps, seen>>

machine == <<m, vpc, va, vopts, debug, pc, a, opts, cycles, status, ret, out, putErr,
             gets, trace, traceErr, diag, ev, lastStore, prog, line, got>>
process == <<argc, fopenOK, fcloseOK, exit, outcome>>
walk == <<seed, cur, steps, seen>>

NoEvent == [kind |-> "none", pc |-> 0, a |-> 0, ins |-> 0, arg |-> 0, cycles |-> 0]

\* ------------------------------------------------------------------ the devices
\* get: fgetc's result, a character or EOF
get(ch) == ch

\* put: the character written, or -1 when the write or the flush failed
put(ch, ok) == IF ok THEN ch % 256 ELSE -1

\* addr & 0x8000
Bit15(addr) == (addr \div 32768) % 2 = 1

\* load keeping one byte of the device's answer
load_byte(addr, io, ch) ==
    IF io /\ Bit15(addr)
    THEN [val |-> get(ch) % 256, gets |-> gets + 1]
    ELSE [val |-> m[addr % SZ], gets |-> gets]

\* load that never consults the device
load_memonly(addr, io, ch) == [val |-> m[addr % SZ], gets |-> gets]

\* load: the value read and the count of device reads after it
load(addr, io, ch) ==
    IF io /\ Bit15(addr)
    THEN [val |-> ToWord(get(ch)), gets |-> gets + 1]
    ELSE [val |-> m[addr % SZ], gets |-> gets]

\* store that keeps only eight bits of a memory address
store_addr8(addr, val, cyc, ok) ==
    IF Bit15(addr)
    THEN [m |-> m,
          vopts |-> IF HasFlag(vopts, OFIRST) THEN vopts - OFIRST ELSE vopts,
          diag |-> IF HasFlag(vopts, OFIRST) /\ debug THEN Append(diag, cyc) ELSE diag,
          out |-> Append(out, <<val, cyc>>),
          putErr |-> putErr \/ put(val, ok) < 0,
          lastStore |-> lastStore]
    ELSE [m |-> [m EXCEPT ![addr % 256] = val],
          vopts |-> vopts, diag |-> diag, out |-> out, putErr |-> putErr,
          lastStore |-> <<addr, val>>]

\* store without the else: a device write also lands in memory
store_both(addr, val, cyc, ok) ==
    IF Bit15(addr)
    THEN [m |-> [m EXCEPT ![addr % SZ] = val],
          vopts |-> IF HasFlag(vopts, OFIRST) THEN vopts - OFIRST ELSE vopts,
          diag |-> IF HasFlag(vopts, OFIRST) /\ debug THEN Append(diag, cyc) ELSE diag,
          out |-> Append(out, <<val, cyc>>),
          putErr |-> putErr \/ put(val, ok) < 0,
          lastStore |-> lastStore]
    ELSE [m |-> [m EXCEPT ![addr % SZ] = val],
          vopts |-> vopts, diag |-> diag, out |-> out, putErr |-> putErr,
          lastStore |-> <<addr, val>>]

\* store: what it leaves in memory, in v->opts, on v->debug and on the device
store(addr, val, cyc, ok) ==
    IF Bit15(addr)
    THEN [m |-> m,
          vopts |-> IF HasFlag(vopts, OFIRST) THEN vopts - OFIRST ELSE vopts,
          diag |-> IF HasFlag(vopts, OFIRST) /\ debug THEN Append(diag, cyc) ELSE diag,
          out |-> Append(out, <<val, cyc>>),
          putErr |-> putErr \/ put(val, ok) < 0,
          lastStore |-> lastStore]
    ELSE [m |-> [m EXCEPT ![addr % SZ] = val],
          vopts |-> vopts, diag |-> diag, out |-> out, putErr |-> putErr,
          lastStore |-> <<addr, val>>]

\* ------------------------------------------------------------------ run
\* the decoded instruction at the current pc
ImmOf(ins) == ins % 4096
AluOf(ins) == (ins \div 4096) % 8
Ins == m[pc % SZ]
Imm == ImmOf(Ins)
Alu == AluOf(Ins)
Indirect == Bit15(Ins)

\* an operand fetch that hands the whole instruction word to load with io on
Fetch_io == IF Indirect THEN load(Ins, TRUE, 0) ELSE [val |-> Imm, gets |-> gets]

\* the operand fetch: load(v, imm, 0) when the indirect bit is set, else imm
Fetch == IF Indirect THEN load(Imm, FALSE, 0) ELSE [val |-> Imm, gets |-> gets]
Arg == Fetch.val

\* a failed trace line that run does not notice
TraceAbort_ignored(fr) == FALSE

\* the trace line of an iteration failed: run returns -1
TraceAbort(fr) == debug /\ fr < 0

\* what the switch leaves behind, registers and side effects
Same(npc, na) ==
    [pc |-> npc, a |-> na, halt |-> FALSE, m |-> m, vopts |-> vopts, diag |-> diag,
     out |-> out, putErr |-> putErr, gets |-> gets, lastStore |-> lastStore]

\* case 0: a ^= arg
do_xor(arg, next) == Same(next, BitXor(a, arg))

\* case 1: a &= arg
do_and(arg, next) == Same(next, BitAnd(a, arg))

\* case 2: a = opts & OADD ? a + arg : arg << 1
do_lsl1(arg, next) ==
    Same(next, IF HasFlag(opts, OADD) THEN ToWord(a + arg) ELSE ToWord(arg * 2))

\* a right shift of the accumulator instead of the operand
do_lsr1_acc(arg, next) == Same(next, a \div 2)

\* case 3: a = arg >> 1
do_lsr1(arg, next) == Same(next, arg \div 2)

\* case 4: a = load(v, arg, 1)
do_load(arg, next, ch) ==
    LET l == load(arg, TRUE, ch)
    IN [Same(next, l.val) EXCEPT !.gets = l.gets]

\* case 5: store(v, arg, a, cycles), its result unused
do_store(arg, next, ok) ==
    LET s == store(arg, a, cycles, ok)
    IN [Same(next, a) EXCEPT !.m = s.m, !.vopts = s.vopts, !.diag = s.diag,
                             !.out = s.out, !.putErr = s.putErr,
                             !.lastStore = s.lastStore]

\* case 6: if (pc == arg) goto end; pc = arg
do_jmp(arg) == IF pc = arg THEN [Same(pc, a) EXCEPT !.halt = TRUE] ELSE Same(arg, a)

\* a conditional jump that ends the run when it lands on itself
do_jmpz_halts(arg, next) ==
    IF a = 0 /\ pc = arg THEN [Same(pc, a) EXCEPT !.halt = TRUE]
    ELSE Same(IF a = 0 THEN arg ELSE next, a)

\* a conditional jump that ignores the accumulator
do_jmpz_always(arg, next) == Same(arg, a)

\* a conditional jump taken on a non-zero accumulator
do_jmpz_inverted(arg, next) == Same(IF a # 0 THEN arg ELSE next, a)

\* case 7: pc = _pc; if (!a) pc = arg
do_jmpz(arg, next) == Same(IF a = 0 THEN arg ELSE next, a)

Dispatch(alu, arg, next, ch, ok) ==
    CASE alu = 0 -> do_xor(arg, next)
      [] alu = 1 -> do_and(arg, next)
      [] alu = 2 -> do_lsl1(arg, next)
      [] alu = 3 -> do_lsr1(arg, next)
      [] alu = 4 -> do_load(arg, next, ch)
      [] alu = 5 -> do_store(arg, next, ok)
      [] alu = 6 -> do_jmp(arg)
      [] alu = 7 -> do_jmpz(arg, next)

\* the trace line printing the fetch address instead of the pc
TraceLine_fetchaddr == <<pc % SZ, Indirect, Alu, a>>

\* what the trace line of an iteration shows: "%d: %c a_%s %d"
TraceLine == <<pc, Indirect, Alu, a>>

Event(kind) == [kind |-> kind, pc |-> pc, a |-> a, ins |-> Ins, arg |-> Arg, cycles |-> cycles]

\* the ways main's environment can go: no argument, no file, a file that
\* does not close, and a file read and closed
Environments == {<<1, FALSE, FALSE>>, <<2, FALSE, FALSE>>, <<2, TRUE, FALSE>>, <<2, TRUE, TRUE>>}

\* main's structure: zeroed but for the devices, and the program loaded into m
\* when there is a file to read
Init ==
    /\ prog \in DOMAIN Programs
    /\ \E e \in Environments : argc = e[1] /\ fopenOK = e[2] /\ fcloseOK = e[3]
    /\ m = (IF argc >= 2 /\ fopenOK THEN LoadImage(Programs[prog])
            ELSE [i \in 0..(SZ - 1) |-> 0])
    /\ exit = <<>> /\ outcome = "none"
    /\ line = <<>> /\ got = <<>>
    /\ vpc = 0 /\ va = 0
    /\ vopts \in 0..7
    /\ debug \in BOOLEAN
    /\ pc = 0 /\ a = 0 /\ opts = 0 /\ cycles = 0
    /\ status = "reset" /\ ret = 0
    /\ out = <<>> /\ putErr = FALSE /\ gets = 0
    /\ trace = 0 /\ traceErr = FALSE /\ diag = <<>>
    /\ ev = NoEvent /\ lastStore = <<>>
    /\ seed = 0 /\ cur = 0 /\ steps = 0 /\ seen = {}

\* main has its file read and closed and calls run, whose first line loads the
\* machine state into locals
RunEnter ==
    /\ status = "reset" /\ exit = <<>>
    /\ argc >= 2 /\ fopenOK /\ fcloseOK
    /\ status' = "running"
    /\ pc' = vpc
    /\ a' = vpc
    /\ opts' = vopts
    /\ cycles' = 0
    /\ UNCHANGED <<m, vpc, va, vopts, debug, ret, out, putErr, gets, trace, traceErr,
                   diag, ev, lastStore, prog, line, got, process, walk>>

\* one iteration of run's loop.  The loop counter is followed up to MaxCycles;
\* past it the loop still runs, the counter is no longer followed, and only
\* iterations that write no trace line and call no device are explored (the
\* counter is read by nothing else).
Step ==
    /\ status = "running"
    /\ IF cycles < MaxCycles THEN TRUE
       ELSE ~debug /\ ~(Alu \in {4, 5} /\ Bit15(Arg))
    /\ \E fr \in (IF debug THEN FprintfResults ELSE {1}),
          ch \in (IF Alu = 4 /\ Bit15(Arg) THEN GetResults ELSE {0}),
          ok \in (IF Alu = 5 /\ Bit15(Arg) THEN PutResults ELSE {TRUE}) :
        LET next == lfsr(pc, POLYNOMIAL, HasFlag(opts, OLFSR))
            d == Dispatch(Alu, Arg, next, ch, ok)
        IN /\ traceErr' = (traceErr \/ (debug /\ fr < 0))
           /\ IF TraceAbort(fr)
              THEN /\ status' = "faulted"
                   /\ ret' = -1
                   /\ ev' = Event("fault")
                   /\ UNCHANGED <<m, vpc, va, vopts, pc, a, cycles, out, putErr, gets,
                                  trace, diag, lastStore, line, got>>
              ELSE /\ trace' = (IF debug THEN trace + 1 ELSE trace)
                   /\ line' = (IF debug THEN TraceLine ELSE line)
                   /\ got' = (IF d.gets > gets THEN <<get(ch)>> ELSE got)
                   /\ m' = d.m /\ vopts' = d.vopts /\ diag' = d.diag /\ out' = d.out
                   /\ putErr' = d.putErr /\ lastStore' = d.lastStore
                   /\ gets' = d.gets + (Fetch.gets - gets)
                   /\ IF d.halt
                      THEN /\ status' = "halted"
                           /\ vpc' = pc /\ va' = a
                           /\ ret' = 0
                           /\ ev' = Event("halt")
                           /\ UNCHANGED <<pc, a, cycles>>
                      ELSE /\ pc' = d.pc /\ a' = d.a
                           /\ cycles' = (IF cycles < MaxCycles THEN cycles + 1 ELSE cycles)
                           /\ ev' = Event("step")
                           /\ UNCHANGED <<status, ret, vpc, va>>
    /\ UNCHANGED <<debug, opts, prog, process, walk>>

\* main's exit code once run has returned
MainExit == IF ret < 0 THEN 1 ELSE 0

\* what run returns for a way of ending
RunResult(o) == IF o = "fault" THEN -1 ELSE 0

\* the value main returns for each way of ending
ExitCode(o) ==
    CASE o = "usage" -> 1
      [] o = "open" -> 2
      [] o = "close" -> 3
      [] OTHER -> IF RunResult(o) < 0 THEN 1 ELSE 0

Outcomes == {"usage", "open", "close", "fault", "halt"}

\* argc < 2: the usage line, return 1
MainUsage ==
    /\ status = "reset" /\ exit = <<>>
    /\ argc < 2
    /\ exit' = <<ExitCode("usage")>> /\ outcome' = "usage"
    /\ UNCHANGED <<machine, argc, fopenOK, fcloseOK, walk>>

\* fopen returned NULL: return 2
MainOpenFail ==
    /\ status = "reset" /\ exit = <<>>
    /\ argc >= 2 /\ ~fopenOK
    /\ exit' = <<ExitCode("open")>> /\ outcome' = "open"
    /\ UNCHANGED <<machine, argc, fopenOK, fcloseOK, walk>>

\* fclose failed after the loading loop: return 3
MainCloseFail ==
    /\ status = "reset" /\ exit = <<>>
    /\ argc >= 2 /\ fopenOK /\ ~fcloseOK
    /\ exit' = <<ExitCode("close")>> /\ outcome' = "close"
    /\ UNCHANGED <<machine, argc, fopenOK, fcloseOK, walk>>

\* run has returned: return run(&vm) < 0
MainReturn ==
    /\ status \in {"halted", "faulted"} /\ exit = <<>>
    /\ exit' = <<MainExit>>
    /\ outcome' = (IF status = "faulted" THEN "fault" ELSE "halt")
    /\ UNCHANGED <<machine, argc, fopenOK, fcloseOK, walk>>

Next == RunEnter \/ Step \/ MainUsage \/ MainOpenFail \/ MainCloseFail \/ MainReturn

Spec == Init /\ [][Next]_vars

\* the loop is never abandoned while it can go on
FairSpec == Init /\ [][Next]_vars /\ WF_vars(Next)

\* ------------------------------------------------------------------ the sequencer alone
WalkSeeds == 0..255 \cup {256, 4101, 32768, 65535}

InitWalk ==
    /\ prog = 1
    /\ m = LoadImage(Programs[prog])
    /\ vpc = 0 /\ va = 0 /\ vopts = 0 /\ debug = FALSE
    /\ pc = 0 /\ a = 0 /\ opts = 0 /\ cycles = 0
    /\ status = "reset" /\ ret = 0
    /\ out = <<>> /\ putErr = FALSE /\ gets = 0
    /\ trace = 0 /\ traceErr = FALSE /\ diag = <<>>
    /\ ev = NoEvent /\ lastStore = <<>>
    /\ argc = 2 /\ fopenOK = TRUE /\ fcloseOK = TRUE
    /\ exit = <<>> /\ outcome = "none"
    /\ line = <<>> /\ got = <<>>
    /\ seed \in WalkSeeds /\ cur = seed /\ steps = 0 /\ seen = {}

\* one application of the sequencer in LFSR mode
WalkStep ==
    /\ steps < MaxWalk
    /\ cur' = lfsr(cur, POLYNOMIAL, FALSE)
    /\ steps' = steps + 1
    /\ seen' = seen \cup {cur'}
    /\ UNCHANGED <<seed, machine, process>>

SpecWalk == InitWalk /\ [][WalkStep]_vars

\* ------------------------------------------------------------------ claims

\* C1: with the mask 0xB8 in LFSR mode the sequencer's result is always within
\* 0..255, 0 is its only fixed point, and from any non-zero 8-bit seed it visits
\* all 255 non-zero states exactly once before it returns to the seed at the
\* 255th application, never reaching 0.
C1_LfsrClosurePeriod ==
    /\ steps > 0 => cur \in 0..255
    /\ seed = 0 => cur = 0
    /\ seed \in 1..255 =>
         /\ cur # 0
         /\ (0 < steps /\ steps < 255) => cur # seed
         /\ steps <= 255 => Cardinality(seen) = steps
         /\ steps = 255 => (cur = seed /\ seen = 1..255)

\* C1: a walk from a non-zero seed has come back to it after 255 applications
C1_Witness == seed \in 1..255 /\ steps = 255 /\ cur = seed

\* C2: the program counter is an 8-bit quantity: after every executed step it is
\* within 0..0xFF, so instructions are only ever fetched from addresses 0..255.
C2_PcEightBit ==
    /\ pc \in 0..255
    /\ ev.kind # "none" => (ev.pc % SZ) \in 0..255

\* C3: a dispatched JMP whose operand equals the address it was fetched from
\* (pc mod SZ) halts the machine on that very step, and the saved PC and A are
\* the values held before the step.
C3_HaltSentinel ==
    (ev.kind \in {"step", "halt"} /\ AluOf(ev.ins) = 6 /\ ev.arg = ev.pc % SZ) =>
        /\ ev.kind = "halt"
        /\ status = "halted" /\ ret = 0
        /\ vpc = ev.pc /\ va = ev.a

\* C4: for the machine as main constructs it (v->opts = 0) with the tracer
\* enabled, once two or more STOREs to an I/O address have been executed the
\* "Cycles until first output" line has been written exactly once, at the first
\* of them, recording that step's cycle count.
C4_FirstOutputOnce ==
    (status # "reset" /\ opts = 0 /\ debug /\ Len(out) >= 2) => diag = <<out[1][2]>>

\* C5 as stated, with the first-output line asked for only when there is a
\* tracer to write it: from reset with memory 0x1005, 0x9000, 0x1000 the run
\* eventually halts (unless a trace write faults it), having written one
\* character and one first-output line, with A = 5.
C5_ScenarioHalts ==
    (prog = 1 /\ vopts = 0 /\ argc >= 2 /\ fopenOK /\ fcloseOK) =>
        <>(\/ status = "faulted"
           \/ /\ status = "halted"
              /\ Len(out) = 1 /\ a = 5
              /\ debug => Len(diag) = 1)

\* C5 amended: from reset with memory 0x1005, 0x9000, 0x1000 the run never
\* halts: 0x1005 is AND 5, so A stays 0, nothing is written to the device, no
\* first-output line is written, and in LFSR mode the PC never leaves 0.
C5_ScenarioSpins ==
    (prog = 1 /\ status # "reset") =>
        /\ status # "halted"
        /\ a = 0
        /\ out = <<>> /\ diag = <<>>
        /\ ~HasFlag(opts, OLFSR) => pc = 0

\* C5: the scenario has run past its three instructions and is still running
C5_Witness ==
    prog = 1 /\ opts = 0 /\ status = "running" /\ cycles >= 3 /\ ev.pc = 0 /\ pc = 0

\* C6: a failed write of the output device during a STORE to an I/O address
\* aborts the run in the Faulted state with a negative result.
C6_WriteFailureFatal == putErr => (status = "faulted" /\ ret < 0)

\* C7: with tracing enabled, a step whose trace line fails ends the run Faulted
\* (run returns a negative value, main a non-zero one) without dispatching the
\* instruction: no memory cell is written, the device is neither read nor
\* written, and nothing is executed afterwards.
C7_TraceFailureFatal ==
    [][/\ (traceErr' /\ ~traceErr) =>
            /\ status' = "faulted" /\ ret' < 0 /\ MainExit' # 0
            /\ m' = m /\ out' = out /\ gets' = gets /\ diag' = diag
            /\ pc' = pc /\ a' = a /\ cycles' = cycles
       /\ traceErr => (status = "faulted" /\ machine' = machine)]_vars

\* C7: the trace line of a LOAD or STORE failed
C7_Witness ==
    traceErr /\ status = "faulted" /\ ev.kind = "fault" /\ AluOf(ev.ins) \in {4, 5}

\* C8: a dispatched LOAD or STORE whose effective address has bit 15 set goes to
\* the device (LOAD: one get, whose result is A; STORE: one put of A) and leaves
\* memory alone; with bit 15 clear it accesses m[addr mod 4096] and calls
\* neither get nor put.
C8_IORouting ==
    [][(status = "running" /\ ev'.kind = "step" /\ Alu \in {4, 5}) =>
          IF Arg >= 32768
          THEN /\ m' = m
               /\ IF Alu = 4
                  THEN /\ gets' = gets + 1 /\ out' = out
                       /\ a' \in {c % 65536 : c \in GetResults}
                  ELSE /\ out' = Append(out, <<a, cycles>>) /\ gets' = gets
          ELSE /\ gets' = gets /\ out' = out
               /\ IF Alu = 4
                  THEN a' = m[Arg % 4096] /\ m' = m
                  ELSE m' = [m EXCEPT ![Arg % 4096] = a]]_vars

\* C8: the device has been read and written, and a cell has been stored and loaded
C8_Witness ==
    /\ gets > 0 /\ Len(out) > 0 /\ lastStore # <<>>
    /\ ev.kind = "step" /\ AluOf(ev.ins) = 4 /\ ev.arg < 32768

\* C9: after a STORE of v to an address with bit 15 clear, a LOAD from any
\* address with bit 15 clear that names the same cell modulo 4096 yields v; no
\* address faults the machine.
C9_RoundTrip ==
    /\ (ev.kind = "step" /\ AluOf(ev.ins) = 4 /\ ev.arg < 32768 /\ lastStore # <<>>
          /\ ev.arg % 4096 = lastStore[1] % 4096) => a = lastStore[2]
    /\ status = "faulted" => traceErr

\* C9: a cell stored through one address has been loaded through an alias of it
C9_Witness ==
    /\ ev.kind = "step" /\ AluOf(ev.ins) = 4 /\ ev.arg < 32768 /\ lastStore # <<>>
    /\ ev.arg # lastStore[1] /\ ev.arg % 4096 = lastStore[1] % 4096
    /\ a = lastStore[2] /\ a # 0

\* C10: a step changes memory only when it is a STORE to an address with bit 15
\* clear, and then exactly the cell m[addr mod 4096] becomes A.
C10_MemoryFrame ==
    [][/\ m' # m => (status = "running" /\ Alu = 5 /\ Arg < 32768)
       /\ (status = "running" /\ ev'.kind = "step" /\ Alu = 5 /\ Arg < 32768) =>
              m' = [m EXCEPT ![Arg % 4096] = a]
       /\ (status = "running" /\ ev'.kind = "step" /\ ~(Alu = 5 /\ Arg < 32768)) =>
              m' = m]_vars

\* C10: a STORE has changed a memory cell, and a STORE to the device has run
C10_Witness ==
    /\ lastStore # <<>> /\ m[lastStore[1] % 4096] = lastStore[2]
    /\ m # LoadImage(Programs[prog]) /\ Len(out) > 0

\* C11: from Running a step stays Running or moves to Halted or Faulted; Halted
\* is entered only by a JMP whose operand equals the current PC, Faulted only by
\* a failed trace or device write; once Halted or Faulted no instruction is
\* executed and PC, A and memory never change again.
C11_Transitions ==
    [][/\ status = "running" => status' \in {"running", "halted", "faulted"}
       /\ status' = "running" => status \in {"reset", "running"}
       /\ (status = "running" /\ status' = "halted") => (Alu = 6 /\ Arg = pc)
       /\ (status = "running" /\ status' = "faulted") =>
              ((traceErr' /\ ~traceErr) \/ (putErr' /\ ~putErr))
       /\ status \in {"halted", "faulted"} =>
              /\ status' = status
              /\ pc' = pc /\ a' = a /\ m' = m
              /\ ev' = ev /\ trace' = trace /\ gets' = gets /\ out' = out]_vars

\* C11: the run halted on a JMP to its own address and main has returned since
C11_Witness ==
    /\ status = "halted" /\ exit # <<>>
    /\ ev.kind = "halt" /\ AluOf(ev.ins) = 6 /\ ev.arg = ev.pc /\ pc = ev.pc

\* C12 as stated: after every step whose opcode is not JMP (JMPZ included) the
\* PC is next_pc of the PC before the step.
C12_OnlyJmpLeavesSequence ==
    (ev.kind = "step" /\ AluOf(ev.ins) # 6) =>
        pc = lfsr(ev.pc, POLYNOMIAL, HasFlag(opts, OLFSR))

\* C12 amended: after every step whose opcode is neither JMP nor a JMPZ executed
\* with A = 0 the PC is next_pc of the PC before the step; JMP and the taken
\* JMPZ are the two ways the PC is set to an operand.
C12_JumpsLeaveSequence ==
    (ev.kind = "step" /\ AluOf(ev.ins) # 6 /\ ~(AluOf(ev.ins) = 7 /\ ev.a = 0)) =>
        pc = lfsr(ev.pc, POLYNOMIAL, HasFlag(opts, OLFSR))

\* C12: a JMPZ executed with a non-zero accumulator fell through to next_pc,
\* away from its operand
C12_Witness ==
    /\ ev.kind = "step" /\ AluOf(ev.ins) = 7 /\ ev.a # 0 /\ pc # ev.arg
    /\ pc = lfsr(ev.pc, POLYNOMIAL, HasFlag(opts, OLFSR))

\* C13: with the tracer enabled every iteration of the loop writes exactly one
\* trace line, before the dispatch, showing the PC and A held before the step
\* (an iteration whose line fails dispatches nothing), so the lines written
\* count the instructions dispatched, the halting JMP included; with the tracer
\* disabled no trace line and no first-output line is ever written.
C13_Tracer ==
    [][/\ (status = "running" /\ debug) =>
              \/ /\ ~traceErr'
                 /\ trace' = trace + 1
                 /\ line' = <<pc, Ins >= 32768, (Ins \div 4096) % 8, a>>
                 /\ trace' = IF status' = "halted" THEN cycles' + 1 ELSE cycles'
              \/ /\ traceErr' /\ status' = "faulted"
                 /\ trace' = trace /\ line' = line
                 /\ m' = m /\ out' = out /\ gets' = gets /\ diag' = diag
       /\ status # "running" => (trace' = trace /\ line' = line /\ diag' = diag)
       /\ ~debug => (trace' = 0 /\ line' = <<>> /\ diag' = <<>>)]_vars

\* C13: a traced run has halted after three lines or more, the last of them
\* the halting JMP's
C13_Witness ==
    /\ debug /\ status = "halted" /\ trace = cycles + 1 /\ trace >= 3
    /\ line = <<ev.pc, Bit15(ev.ins), 6, ev.a>>

\* C14: the exit codes of the usage error, the open failure, the close failure
\* and the execution error are pairwise distinct and differ from the exit code
\* of a halted run: the code main returned belongs to no other outcome.
C14_ExitCodesDistinct ==
    exit # <<>> => \A o \in Outcomes \ {outcome} : ExitCode(o) # exit[1]

C16_AluReference ==
    [][/\ (status = "running" /\ ev'.kind = "step" /\ Alu \in 0..3) =>
              LET Bit(x, i) == (x \div (2 ^ i)) % 2
              IN /\ Alu = 0 => \A i \in 0..15 :
                                   Bit(a', i) = (Bit(a, i) + Bit(Arg, i)) % 2
                 /\ Alu = 1 => \A i \in 0..15 : Bit(a', i) = Bit(a, i) * Bit(Arg, i)
                 /\ Alu = 2 => a' = IF (opts \div 2) % 2 = 1
                                    THEN (a + Arg) % 65536
                                    ELSE (Arg * 2) % 65536
                 /\ Alu = 3 => a' = Arg \div 2
                 /\ m' = m /\ out' = out /\ gets' = gets /\ diag' = diag
       /\ a' \in 0..65535]_vars

\* C16: an addition has wrapped round 2^16 and a shift-right has halved a
\* full-width operand
C16_Witness ==
    /\ prog = 10 /\ ev.kind = "step" /\ AluOf(ev.ins) = 3 /\ ev.arg = 65535
    /\ a = 32767 /\ HasFlag(opts, OADD) /\ ev.a < 65535 /\ ev.a # 0

\* C17: the operand of an instruction with bit 15 set is the memory cell named
\* by its 12-bit immediate, read without a call of the device; with bit 15
\* clear it is the immediate; the device is called only by the dispatch of a
\* LOAD or a STORE, at most once in a step.
C17_OperandFetch ==
    [][/\ status = "running" =>
              /\ ev'.arg = IF Ins >= 32768 THEN m[Ins % 4096] ELSE Ins % 4096
              /\ (gets' - gets) + (Len(out') - Len(out)) \in {0, 1}
              /\ gets' # gets => (Alu = 4 /\ ev'.kind = "step" /\ Arg >= 32768)
              /\ out' # out => (Alu = 5 /\ ev'.kind = "step" /\ Arg >= 32768)
       /\ status # "running" => (gets' = gets /\ out' = out)]_vars

\* C17: a LOAD whose operand was fetched from memory has read the device, once
C17_Witness ==
    /\ ev.kind = "step" /\ Bit15(ev.ins) /\ AluOf(ev.ins) = 4
    /\ ev.arg = 32768 /\ gets = 1 /\ out = <<>>

\* C18: a dispatched JMPZ leaves A and memory unchanged and the machine
\* Running; the new PC is the operand when A was 0 and next_pc(PC) otherwise,
\* also when the operand is the JMPZ's own address.
C18_Jmpz ==
    [][(status = "running" /\ Alu = 7 /\ ~(traceErr' /\ ~traceErr)) =>
          /\ status' = "running" /\ ev'.kind = "step"
          /\ a' = a /\ m' = m
          /\ pc' = IF a = 0 THEN Arg ELSE lfsr(pc, POLYNOMIAL, HasFlag(opts, OLFSR))]_vars

\* C18: in counting mode a taken JMPZ to its own address has been executed more
\* than once and the machine is still running there
C18_Witness ==
    /\ prog = 8 /\ HasFlag(opts, OLFSR) /\ status = "running" /\ cycles >= 2
    /\ ev.kind = "step" /\ AluOf(ev.ins) = 7 /\ ev.a = 0 /\ ev.arg = ev.pc /\ pc = ev.pc

\* C19: in LFSR mode, when the PC is 0 and the dispatched instruction is neither
\* a JMP nor a JMPZ with A = 0, the PC is 0 after the step.
C19_ZeroSticky ==
    [][(/\ status = "running" /\ ev'.kind = "step"
        /\ ~HasFlag(opts, OLFSR) /\ pc = 0
        /\ Alu # 6 /\ ~(Alu = 7 /\ a = 0)) => pc' = 0]_vars

\* C19: main's machine has executed the XOR at address 0 several times, A is
\* non-zero and the PC is still 0
C19_Witness ==
    /\ prog = 5 /\ vopts = 0 /\ status = "running" /\ cycles >= 3
    /\ ev.kind = "step" /\ ev.pc = 0 /\ AluOf(ev.ins) = 0 /\ a # 0 /\ pc = 0

\* C20: after a LOAD from an address with bit 15 set A is the character the
\* device returned, or 0xFFFF when it returned EOF; the machine is Running and
\* the PC is next_pc of the LOAD's PC.
C20_DeviceLoad ==
    (ev.kind = "step" /\ AluOf(ev.ins) = 4 /\ ev.arg >= 32768) =>
        /\ got # <<>> /\ got[1] \in -1..255
        /\ a = IF got[1] = -1 THEN 65535 ELSE got[1]
        /\ status = "running" /\ ret = 0
        /\ pc = lfsr(ev.pc, POLYNOMIAL, HasFlag(opts, OLFSR))

\* C20: the device has reported end-of-stream to a LOAD and the run goes on
C20_Witness ==
    /\ ev.kind = "step" /\ AluOf(ev.ins) = 4 /\ ev.arg >= 32768
    /\ got = <<-1>> /\ a = 65535 /\ status = "running"

====
